---- MODULE Spec2Model ----
(***************************************************************************)
(* Model of main() of convert_image_to_icns_file.py: one run of the       *)
(* pipeline  pad -> crop -> rendition loop -> iconutil -> rename.          *)
(* An image is represented by its size; a pasted or cropped region by its  *)
(* offsets; a file by the kind of content it holds.                        *)
(***************************************************************************)
EXTENDS Integers, Sequences, FiniteSets

\* Source sides 1..MaxSmall are explored besides the sides around each
\* rendition size.
MaxSmall == 6

\* The external tool's exit codes are drawn from 0..MaxReturnCode.
MaxReturnCode == 2

\* Files that need to be created: (name, size and scale).
icon_files ==
  << <<"icon_16x16.png", 16, 1>>,
     <<"icon_16x16@2x.png", 16, 2>>,
     <<"icon_32x32.png", 32, 1>>,
     <<"icon_32x32@2x.png", 32, 2>>,
     <<"icon_128x128.png", 128, 1>>,
     <<"icon_128x128@2x.png", 128, 2>>,
     <<"icon_256x256.png", 256, 1>>,
     <<"icon_256x256@2x.png", 256, 2>>,
     <<"icon_512x512.png", 512, 1>>,
     <<"icon_512x512@2x.png", 512, 2>>,
     <<"icon_1024x1024.png", 1024, 1>> >>

\* adjusted_size = size * multiplier
AdjustedSize(size, multiplier) == size * multiplier

\* The pixel sizes the catalog asks for: 16, 32, 64, 128, 256, 512, 1024.
RenditionSides ==
  { AdjustedSize(icon_files[i][2], icon_files[i][3]) : i \in DOMAIN icon_files }

\* Sides of the source images explored.
Dims ==
  (1..MaxSmall) \cup UNION { {s - 1, s, s + 1} : s \in RenditionSides }

ReturnCodes == 0..MaxReturnCode

Max(a, b) == IF a > b THEN a ELSE b
Min(a, b) == IF a < b THEN a ELSE b

VARIABLES
  options,        \* keep_aspect, crop, all_sizes, binary_is_file
  same_filesystem,\* the temporary directory and the output path share a device
  source,         \* size of the decoded source image
  outfile_before, \* what the output path held before the run
  image,          \* image.size
  paste_at,       \* where the source was pasted on the blank canvas, or <<>>
  crop_box,       \* the box the image was cropped to, or <<>>
  image_width,    \* image_width as read before the loop
  last_size,
  idx,            \* number of icon_files entries the loop has visited
  written,        \* the files saved into the iconset, in order
  fs,             \* content at options.outfile and at temp_file
  invoked,        \* subprocess.run was called
  deposited,      \* the tool left <stem>.icns beside the iconset
  exit_status,    \* <<exit code the tool ended with>>, or <<>>
  returncode,     \* <<process_info.returncode>>, or <<>>
  renamed,        \* temp_file.rename(options.outfile) was performed
  result,         \* <<value returned by main>>, or <<>>
  pc

vars ==
  << options, same_filesystem, source, outfile_before, image, paste_at,
     crop_box, image_width, last_size, idx, written, fs, invoked, deposited,
     exit_status, returncode, renamed, result, pc >>

geometry == << image, paste_at, crop_box >>
loopvars == << image_width, last_size, idx, written >>
packvars ==
  << fs, invoked, deposited, exit_status, returncode, renamed, result >>
inputs == << options, same_filesystem, source, outfile_before >>

Init ==
  /\ options \in [ keep_aspect : BOOLEAN, crop : BOOLEAN,
                   all_sizes : BOOLEAN, binary_is_file : BOOLEAN ]
  /\ same_filesystem \in BOOLEAN
  /\ source \in [ w : Dims, h : Dims ]
  /\ outfile_before \in {"absent", "old"}
  /\ image = source
  /\ paste_at = << >>
  /\ crop_box = << >>
  /\ image_width = source.w
  /\ last_size = 0
  /\ idx = 0
  /\ written = << >>
  /\ fs = [ outfile |-> outfile_before, temp_file |-> "absent" ]
  /\ invoked = FALSE
  /\ deposited = FALSE
  /\ exit_status = << >>
  /\ returncode = << >>
  /\ renamed = FALSE
  /\ result = << >>
  /\ pc = "pad"

(***************************************************************************)
(* Geometry: padding and cropping.                                         *)
(***************************************************************************)

\* int(d / 2) for a difference d >= 0: true division, then truncation.
IntHalf(d) == d \div 2

\* A buggy variant: the paste offset put on the longer axis.
PastePosition_swapped(w, h) ==
  IF w > h THEN << IntHalf(w - h), 0 >> ELSE << 0, IntHalf(h - w) >>

\* Where the source is pasted on the max_size canvas.
PastePosition(w, h) ==
  IF w > h THEN << 0, IntHalf(w - h) >> ELSE << IntHalf(h - w), 0 >>

\* Python's round() of the float n / 2: to the nearest integer, a half to the
\* even neighbour.  Image.crop rounds each box coordinate this way.
PyRoundHalves(n) ==
  LET k == n \div 2
  IN  IF n % 2 = 0 THEN k
      ELSE IF k % 2 = 0 THEN k ELSE k + 1

\* The box handed to image.crop, each coordinate in half pixels (the code
\* passes (image_height - image_width) / 2 unrounded).
CropArgument(w, h) ==
  LET min_size == Min(w, h)
  IN  IF w = min_size
      THEN << 0, h - w, 2 * min_size, (h - w) + 2 * min_size >>
      ELSE << w - h, 0, (w - h) + 2 * min_size, 2 * min_size >>

\* Image.crop: the box with each coordinate rounded to an integer.
CropBox(w, h) ==
  LET box == CropArgument(w, h)
  IN  << PyRoundHalves(box[1]), PyRoundHalves(box[2]),
         PyRoundHalves(box[3]), PyRoundHalves(box[4]) >>

\* The size of the image Image.crop returns for a box.
CroppedSize(box) == [ w |-> box[3] - box[1], h |-> box[4] - box[2] ]

\* Pad image to prevent needing to crop or stretch.
Pad ==
  /\ pc = "pad"
  /\ IF image.w # image.h /\ options.keep_aspect
     THEN LET max_size == Max(image.w, image.h)
          IN  /\ image' = [ w |-> max_size, h |-> max_size ]
              /\ paste_at' = PastePosition(image.w, image.h)
     ELSE UNCHANGED << image, paste_at >>
  /\ pc' = "crop"
  /\ UNCHANGED << inputs, crop_box, loopvars, packvars >>

\* Crop image; then read image_width and reset last_size for the loop.
Crop ==
  /\ pc = "crop"
  /\ IF image.w # image.h /\ options.crop
     THEN /\ crop_box' = CropBox(image.w, image.h)
          /\ image' = CroppedSize(crop_box')
     ELSE UNCHANGED << image, crop_box >>
  /\ image_width' = image'.w
  /\ last_size' = 0
  /\ pc' = "loop"
  /\ UNCHANGED << inputs, paste_at, idx, written, packvars >>

(***************************************************************************)
(* The rendition loop.                                                     *)
(***************************************************************************)

\* A buggy variant: a source exactly as wide as last_size still passes.
Include_ge(width, last, all_sizes) == width >= last \/ all_sizes

\* A buggy variant: the all_sizes option is ignored.
Include_no_override(width, last, all_sizes) == width > last

\* if image_width > last_size or options.all_sizes
Include(width, last, all_sizes) == width > last \/ all_sizes

\* A buggy variant: last_size takes the retina-scaled size.
UpdatedLastSize_adjusted(size, multiplier) == size * multiplier

\* A buggy variant: last_size is never moved off its initial value.
UpdatedLastSize_stale(size, multiplier) == 0

\* last_size = size
UpdatedLastSize(size, multiplier) == size

\* new_image.resize((adjusted_size, adjusted_size), ...) saved as name.
Rendition(name, size, multiplier) ==
  [ name |-> name,
    w |-> AdjustedSize(size, multiplier),
    h |-> AdjustedSize(size, multiplier) ]

\* One iteration of  for icon_file in icon_files.
Render ==
  /\ pc = "loop"
  /\ idx < Len(icon_files)
  /\ LET icon_file == icon_files[idx + 1]
         name == icon_file[1]
         size == icon_file[2]
         multiplier == icon_file[3]
     IN  IF Include(image_width, last_size, options.all_sizes)
         THEN /\ last_size' = UpdatedLastSize(size, multiplier)
              /\ written' = Append(written, Rendition(name, size, multiplier))
         ELSE UNCHANGED << last_size, written >>
  /\ idx' = idx + 1
  /\ pc' = IF idx' = Len(icon_files) THEN "package" ELSE "loop"
  /\ UNCHANGED << inputs, geometry, image_width, packvars >>

(***************************************************************************)
(* Packaging with the external tool.                                       *)
(***************************************************************************)

\* A buggy variant: the old output file is left in place.
unlink_kept(files, path) == files

\* Path.unlink(missing_ok=True)
unlink(files, path) == [ files EXCEPT ![path] = "absent" ]

\* Path.rename: the target is replaced, the original path is gone.
rename(files, from, to) ==
  [ files EXCEPT ![to] = files[from], ![from] = "absent" ]

\* return process_info.returncode
FailureResult(code) == code

\* if options.binary.is_file(): remove the old output file; else report the
\* missing tool, print Done and return 0.
CheckBinary ==
  /\ pc = "package"
  /\ IF options.binary_is_file
     THEN /\ fs' = unlink(fs, "outfile")
          /\ pc' = "run"
          /\ UNCHANGED result
     ELSE /\ result' = << 0 >>
          /\ pc' = "done"
          /\ UNCHANGED fs
  /\ UNCHANGED << inputs, geometry, loopvars, invoked, deposited,
                  exit_status, returncode, renamed >>

\* subprocess.run completes: the tool exits with some code, having left
\* <stem>.icns beside the iconset or not, and its output decodes as text.
RunTool ==
  /\ pc = "run"
  /\ \E code \in ReturnCodes, left \in BOOLEAN :
       /\ exit_status' = << code >>
       /\ returncode' = << code >>
       /\ deposited' = left
       /\ fs' = IF left THEN [ fs EXCEPT !["temp_file"] = "icns" ] ELSE fs
  /\ invoked' = TRUE
  /\ pc' = "finish"
  /\ UNCHANGED << inputs, geometry, loopvars, renamed, result >>

\* subprocess.run raises ValueError: with universal_newlines=True the output
\* of a tool that ran to its end (any exit code, <stem>.icns left or not) is
\* decoded, and bytes that do not decode raise UnicodeDecodeError, a
\* ValueError.  process_info stays unbound; main prints the error and
\* returns 2.
RunValueError ==
  /\ pc = "run"
  /\ \E code \in ReturnCodes, left \in BOOLEAN :
       /\ exit_status' = << code >>
       /\ deposited' = left
       /\ fs' = IF left THEN [ fs EXCEPT !["temp_file"] = "icns" ] ELSE fs
  /\ invoked' = TRUE
  /\ result' = << 2 >>
  /\ pc' = "done"
  /\ UNCHANGED << inputs, geometry, loopvars, returncode, renamed >>

\* subprocess.run raises something other than ValueError (PermissionError or
\* OSError for a file that cannot be executed): the tool never ran, nothing
\* catches the exception, so it leaves main with no return value, the old
\* output file already removed.
RunOtherError ==
  /\ pc = "run"
  /\ invoked' = TRUE
  /\ pc' = "raised"
  /\ UNCHANGED << inputs, geometry, loopvars, fs, deposited, exit_status,
                  returncode, renamed, result >>

\* if process_info.returncode == 0: rename temp_file to the output path and
\* return 0; else return the tool's code.  Path.rename raises out of main
\* when temp_file is missing (FileNotFoundError) and when the output path is
\* on another filesystem than the temporary directory (OSError, EXDEV).
Finish ==
  /\ pc = "finish"
  /\ IF returncode[1] = 0
     THEN IF fs["temp_file"] = "absent" \/ ~same_filesystem
          THEN /\ pc' = "raised"
               /\ UNCHANGED << fs, renamed, result >>
          ELSE /\ fs' = rename(fs, "temp_file", "outfile")
               /\ renamed' = TRUE
               /\ result' = << 0 >>
               /\ pc' = "done"
     ELSE /\ result' = << FailureResult(returncode[1]) >>
          /\ pc' = "done"
          /\ UNCHANGED << fs, renamed >>
  /\ UNCHANGED << inputs, geometry, loopvars, invoked, deposited,
                  exit_status, returncode >>

Next ==
  \/ Pad
  \/ Crop
  \/ Render
  \/ CheckBinary
  \/ RunTool
  \/ RunValueError
  \/ RunOtherError
  \/ Finish

Spec == Init /\ [][Next]_vars

TypeOK ==
  /\ image \in [ w : Nat, h : Nat ]
  /\ idx \in 0..Len(icon_files)
  /\ Len(written) <= idx
  /\ pc \in {"pad", "crop", "loop", "package", "run", "finish", "done", "raised"}

(***************************************************************************)
(* Vocabulary of the properties.                                           *)
(***************************************************************************)

NameOf(i) == icon_files[i][1]
BaseOf(i) == icon_files[i][2]
ScaleOf(i) == icon_files[i][3]

WrittenNames == { written[i].name : i \in DOMAIN written }
NamesOf(S) == { NameOf(i) : i \in S }

\* The rendition loop has visited every catalog entry.
LoopDone == pc \in {"package", "run", "finish", "done", "raised"}

\* Padding and cropping are over.
Normalized == pc \notin {"pad", "crop"}

\* The external process finished with a non-zero exit code.
ToolFailed == exit_status # << >> /\ exit_status[1] # 0

\* The external process finished with exit code 0.
ToolSucceeded == exit_status # << >> /\ exit_status[1] = 0

NonSquareSource == source.w # source.h
max_side == Max(source.w, source.h)
min_side == Min(source.w, source.h)

\* Catalog positions of the 1x entries that have a 2x sibling.
PairedPositions ==
  { i \in DOMAIN icon_files :
      /\ ScaleOf(i) = 1
      /\ i + 1 \in DOMAIN icon_files
      /\ BaseOf(i + 1) = BaseOf(i) }

(***************************************************************************)
(* C1  Skip policy.                                                        *)
(***************************************************************************)

\* C1 as stated: with all_sizes off, the loop writes exactly the catalog
\* entries whose base size is strictly less than the normalized width, so a
\* 64-wide source yields the 16 and 32 families only.
C1_SkipPolicy_AsStated ==
  (LoopDone /\ ~options.all_sizes) =>
    /\ WrittenNames =
         NamesOf({ i \in DOMAIN icon_files : BaseOf(i) < image_width })
    /\ image_width = 64 =>
         WrittenNames = { "icon_16x16.png", "icon_16x16@2x.png",
                          "icon_32x32.png", "icon_32x32@2x.png" }

\* The first catalog position whose base size is not below a width >= 1.
FirstNotBelow(width) ==
  { i \in DOMAIN icon_files :
      /\ width >= 1
      /\ BaseOf(i) >= width
      /\ \A j \in 1..(i - 1) : BaseOf(j) < width }

\* C1 amended: with all_sizes off, the loop writes, each once, exactly the
\* catalog entries whose base size is strictly less than the normalized
\* width plus, for a width of at least 1, the 1x entry of the smallest base
\* size that is not less than it; a 64-wide source yields the 16 and 32 families and icon_128x128.png,
\* and nothing of icon_128x128@2x.png or larger.
C1_SkipPolicy ==
  (LoopDone /\ ~options.all_sizes) =>
    /\ WrittenNames =
         NamesOf({ i \in DOMAIN icon_files : BaseOf(i) < image_width })
           \cup NamesOf(FirstNotBelow(image_width))
    /\ Cardinality(WrittenNames) = Len(written)
    /\ image_width = 64 =>
         WrittenNames = { "icon_16x16.png", "icon_16x16@2x.png",
                          "icon_32x32.png", "icon_32x32@2x.png",
                          "icon_128x128.png" }

C1_Witness ==
  /\ LoopDone
  /\ ~options.all_sizes
  /\ image_width = 64
  /\ Len(written) = 5
  /\ written[5].name = "icon_128x128.png"

(***************************************************************************)
(* C2  Packaging failure.                                                  *)
(***************************************************************************)

\* C2: when the binary exists and the external process finishes with a
\* non-zero exit code c, main returns exactly c and the rename is never
\* performed.
C2_PackagingFailure ==
  (options.binary_is_file /\ ToolFailed) =>
    /\ ~renamed
    /\ pc \in {"finish", "done"}
    /\ pc = "done" => result = exit_status

(***************************************************************************)
(* C3  Packaging success.                                                  *)
(***************************************************************************)

\* C3: when the binary exists and the external process exits with 0 having
\* deposited <stem>.icns, the run ends with the output path holding the
\* deposited file (whatever was there before), no <stem>.icns at the
\* intermediate location and result 0; the rename happens only after exit
\* code 0 has been observed.
C3_PackagingSuccess ==
  /\ renamed => (invoked /\ returncode = << 0 >>)
  /\ (options.binary_is_file /\ ToolSucceeded /\ deposited) =>
       IF pc = "finish"
       THEN ~renamed /\ result = << >>
       ELSE /\ pc = "done"
            /\ renamed
            /\ fs["outfile"] = "icns"
            /\ fs["temp_file"] = "absent"
            /\ result = << 0 >>

(***************************************************************************)
(* C4  Missing tool.                                                       *)
(***************************************************************************)

\* C4: when no file exists at the binary path, the external process is never
\* invoked, no rename is performed, no exception is raised, and main ends
\* with a result code other than that of a successful packaging run (0).
C4_MissingTool ==
  ~options.binary_is_file =>
    /\ ~invoked
    /\ ~renamed
    /\ pc # "raised"
    /\ pc = "done" => result # << 0 >>

(***************************************************************************)
(* C5  Output path on failure.                                             *)
(***************************************************************************)

\* C5 as stated: where the external tool returns a non-zero exit code, the
\* output path is in the same state after the run as before it.
C5_OutputUntouched_AsStated ==
  (ToolFailed /\ pc = "done") => fs["outfile"] = outfile_before

\* C5 amended: where the external tool returns a non-zero exit code, no
\* output file is created: the output path holds no file after the run (an
\* absent file is still absent; a file that was there before the run has
\* been removed before the tool was invoked and is not put back).
C5_NoOutputOnFailure ==
  ToolFailed =>
    /\ fs["outfile"] = "absent"
    /\ outfile_before = "absent" => fs["outfile"] = outfile_before

C5_Witness ==
  /\ pc = "done"
  /\ ToolFailed
  /\ outfile_before = "old"
  /\ fs["outfile"] = "absent"

(***************************************************************************)
(* C6  all_sizes override.                                                 *)
(***************************************************************************)

\* C6: with all_sizes on, for every source width the loop writes all 11
\* catalog files, each once and in catalog order, each a square of side
\* base size times scale factor.
C6_AllSizes ==
  (options.all_sizes /\ image_width >= 1) =>
    /\ Len(written) = idx
    /\ LoopDone => Len(written) = 11
    /\ \A i \in DOMAIN written :
         /\ written[i].name = NameOf(i)
         /\ written[i].w = BaseOf(i) * ScaleOf(i)
         /\ written[i].h = written[i].w

C6_Witness ==
  /\ LoopDone
  /\ options.all_sizes
  /\ image_width < 16
  /\ Len(written) = 11
  /\ written[11] = [ name |-> "icon_1024x1024.png", w |-> 1024, h |-> 1024 ]

(***************************************************************************)
(* C7  1x/2x pairs.                                                        *)
(***************************************************************************)

\* C7 as stated: for every base size with a 2x entry, if its 1x rendition is
\* written then its @2x rendition is written too, with all_sizes off as well
\* as on.
C7_PairSymmetry_AsStated ==
  LoopDone =>
    \A i \in PairedPositions :
      NameOf(i) \in WrittenNames => NameOf(i + 1) \in WrittenNames

\* C7 amended: for every base size b with a 2x entry, if its 1x rendition is
\* written, then its @2x rendition is written exactly when all_sizes is on
\* or the source width is greater than b.
C7_PairSymmetry ==
  LoopDone =>
    \A i \in PairedPositions :
      NameOf(i) \in WrittenNames =>
        (NameOf(i + 1) \in WrittenNames
           <=> (options.all_sizes \/ image_width > BaseOf(i)))

C7_Witness ==
  /\ LoopDone
  /\ ~options.all_sizes
  /\ { "icon_32x32.png", "icon_32x32@2x.png", "icon_128x128.png" }
       \subseteq WrittenNames
  /\ "icon_128x128@2x.png" \notin WrittenNames

(***************************************************************************)
(* C8  Pad precedence.                                                     *)
(***************************************************************************)

\* C8: for a non-square source with both keep_aspect and crop requested,
\* padding yields a square of side max(W,H) with the source pasted at
\* floor((max-min)/2) on the shorter axis and 0 on the other, the crop step
\* changes nothing, and the loop sees width max(W,H); a square source is
\* changed by no mode.
C8_PadPrecedence ==
  /\ (pc # "pad" /\ NonSquareSource /\ options.keep_aspect /\ options.crop) =>
       /\ image = [ w |-> max_side, h |-> max_side ]
       /\ paste_at = IF source.h < source.w
                     THEN << 0, (max_side - min_side) \div 2 >>
                     ELSE << (max_side - min_side) \div 2, 0 >>
       /\ crop_box = << >>
       /\ Normalized => image_width = max_side
  /\ ~NonSquareSource =>
       /\ image = source
       /\ paste_at = << >>
       /\ crop_box = << >>
       /\ Normalized => image_width = source.w

C8_Witness ==
  /\ pc = "loop"
  /\ options.keep_aspect
  /\ options.crop
  /\ source.w < source.h
  /\ (source.h - source.w) % 2 = 1
  /\ paste_at # << 0, 0 >>
  /\ image_width = source.h

(***************************************************************************)
(* C9  Crop.                                                               *)
(***************************************************************************)

\* C9: for a non-square source with crop requested and padding not, the
\* cropped image is a square of side min(W,H) whose window starts at
\* floor(|W-H|/2) along the longer axis and at 0 along the shorter one.
C9_CropInvariant ==
  (Normalized /\ NonSquareSource /\ options.crop /\ ~options.keep_aspect) =>
    /\ image = [ w |-> min_side, h |-> min_side ]
    /\ crop_box # << >>
    /\ crop_box[1] = IF source.w > source.h
                     THEN (source.w - source.h) \div 2 ELSE 0
    /\ crop_box[2] = IF source.h > source.w
                     THEN (source.h - source.w) \div 2 ELSE 0

(***************************************************************************)
(* C10  Prefix property of the skip fold.                                  *)
(***************************************************************************)

\* The state part of C10: what has been written is a prefix of the catalog.
C10_Prefix ==
  ~options.all_sizes =>
    /\ \A i \in DOMAIN written : written[i].name = NameOf(i)
    /\ (idx >= 1 /\ image_width >= 1) =>
         (Len(written) >= 1 /\ written[1].name = "icon_16x16.png")
    /\ \A i \in 2..idx :
         i <= Len(written) <=> image_width > BaseOf(i - 1)

\* The step part of C10: last_size does not decrease, and nothing is written
\* once an entry has been skipped.
C10_Step ==
  /\ last_size' >= last_size
  /\ (~options.all_sizes /\ Len(written) < idx) => written' = written

\* C10: with all_sizes off, last_size never decreases, once an entry is
\* skipped every later entry is skipped, the files written are a prefix of
\* the catalog, non-empty and beginning with icon_16x16.png for every width
\* >= 1 the loop is given, and the entry at position i > 0 is written exactly when the source width is greater than
\* the base size of the entry before it.
C10_PrefixProperty == [] C10_Prefix /\ [][C10_Step]_vars

C10_Witness ==
  /\ LoopDone
  /\ ~options.all_sizes
  /\ Len(written) = 7
  /\ image_width <= BaseOf(7)

====
